---------------------------- MODULE Spec2Model ----------------------------
(***************************************************************************)
(* libav-screencap: the driver of src/main.cpp (setup, read loop, trailer) *)
(* with the codec wrappers of src/libav.hpp (Frame::scale,                 *)
(* DecoderContext::send_packet, EncoderContext::send_frame,                *)
(* FormatContext::create_stream).  libav itself (capture source, decoder,  *)
(* scaler, encoder, muxer) is the environment: each call into it answers   *)
(* with one of the results its API allows.                                 *)
(***************************************************************************)
EXTENDS Integers, Sequences, FiniteSets, TLC

(* ------------------------------ bounds -------------------------------- *)
\* packets the capture source delivers before it ends
MaxPackets == 2
\* frames the decoder produces for one accepted packet
MaxFramesPerPacket == 1
\* frames the encoder holds back before it emits packets (lookahead)
MaxDelay == 1
\* inner steps (decode, scale, encode, mux) libav lets fail in one run
MaxFailures == 1

(* ------------------------- libav result codes ------------------------- *)
\* AVERROR(EAGAIN)
AVERROR_EAGAIN == -11
\* AVERROR_EOF
AVERROR_EOF == -541478725
\* any other negative AVERROR
AVERROR_EINVAL == -22

\* numerator of av_inv_q(av_guess_frame_rate(..)): x11grab runs at 30000/1001
TimeBaseNums == {1001}
\* stream->index of the first stream avformat_new_stream adds to a new context
StreamIdxs == {0}
\* what a build does with a write through a null pointer
UBOutcomes == {"crash", "continue"}
\* where Frame::scale stops
ScaleOutcomes == {"ok", "alloc_fail", "buffer_fail", "ctx_fail", "init_fail", "rows_mismatch"}

\* frame->width and frame->height of the captured picture (rows kept few)
FrameWidth == 2
FrameHeight == 2
\* pixel format of the frames the x11grab decoder gives
SrcPixFmt == "BGR0"
\* sws_scale was not called
NoRows == 0 - 1

Null == [null |-> TRUE]
\* AV_NOPTS_VALUE, the pts of a freshly allocated frame (below every stamped pts)
NoPts == 0 - 1

VARIABLES
  pc,            \* position of main
  stop,          \* volatile sig_atomic_t stop
  err,           \* what() of the uncaught runtime_error, "" if none
  setupLog,      \* setup calls made so far, in order
  failedStage,   \* first setup stage that failed, "none" if none
  input_avs,     \* AVStream* input_avs: "unset", "stream" or "null"
  timebase_num,  \* output_avcc->time_base.num
  stream_idx,    \* int stream_idx
  encFlags,      \* output_avcc->flags: AV_CODEC_FLAG_GLOBAL_HEADER set
  held,          \* handles of main that own a libav object
  released,      \* handles of main whose deleter has run
  frames,        \* int frames
  nread,         \* packets read from the capture source
  ntests,        \* evaluations of the loop condition
  readsAfterStop,\* packets read while stop was already 1
  trailers,      \* calls of av_write_trailer
  exitBy,        \* how the read loop was left: "none", "stop" or "read"
  decQ,          \* frames the decoder holds, oldest first
  nextFid,       \* number of frames the decoder has produced
  dres,          \* res of send_packet
  sp_ret,        \* value send_packet returned
  frame,         \* frame passed to decode_callback
  decEmitted,    \* frames avcodec_receive_frame returned, in order
  decDelivered,  \* frames passed to the continuation of send_packet, in order
  oneToOne,      \* every accepted packet decoded to exactly one frame
  submitted,     \* packets given to avcodec_send_packet, by read number, in order
  scale_frame,   \* scale_frame of decode_callback
  sws_rows,      \* rows sws_scale reported to the scale that just returned, else NoRows
  sws_ctx,       \* sws_ctx of the scale that just returned: "none", "freed" or "live"
  encQ,          \* frames the encoder holds, oldest first
  encDelay,      \* frames the encoder holds back
  encFlushed,    \* the encoder was sent a null frame
  eres,          \* res of send_frame
  sf_ret,        \* value send_frame returned
  opkt,          \* packet passed to encode_callback
  sent,          \* frames avcodec_send_frame accepted, in order
  written,       \* packets av_write_frame wrote, in order
  fails,         \* <<packet, stage>> of the inner steps that failed
  derefs         \* code sites that went through a null handle in the call under way

setupVars == <<err, setupLog, failedStage, input_avs, timebase_num, stream_idx, encFlags, held, released>>
sigVars   == <<stop>>
loopVars  == <<nread, ntests, readsAfterStop, trailers, exitBy>>
decVars   == <<decQ, nextFid, dres, sp_ret, frame, decEmitted, decDelivered, oneToOne, submitted>>
encVars   == <<frames, scale_frame, sws_rows, sws_ctx, encQ, encDelay, encFlushed, eres, sf_ret, opkt, sent, written>>
vars == <<pc, setupVars, sigVars, loopVars, decVars, encVars, fails, derefs>>

Init ==
  /\ pc = "find_input_format"
  /\ stop = 0
  /\ err = ""
  /\ setupLog = <<>>
  /\ failedStage = "none"
  /\ input_avs = "unset"
  /\ timebase_num = 0
  /\ stream_idx = -1
  /\ encFlags = FALSE
  /\ held = {}
  /\ released = {}
  /\ frames = 0
  /\ nread = 0
  /\ ntests = 0
  /\ readsAfterStop = 0
  /\ trailers = 0
  /\ exitBy = "none"
  /\ decQ = <<>>
  /\ nextFid = 0
  /\ dres = 0
  /\ sp_ret = 0
  /\ frame = Null
  /\ decEmitted = <<>>
  /\ decDelivered = <<>>
  /\ oneToOne = TRUE
  /\ submitted = <<>>
  /\ scale_frame = Null
  /\ sws_rows = NoRows
  /\ sws_ctx = "none"
  /\ encQ = <<>>
  /\ encDelay \in 0..MaxDelay
  /\ encFlushed = FALSE
  /\ eres = 0
  /\ sf_ret = 0
  /\ opkt = Null
  /\ sent = <<>>
  /\ written = <<>>
  /\ fails = {}
  /\ derefs = {}

Terminated == pc \in {"done", "aborted", "crashed"}

(* --------------------------- signal handler --------------------------- *)
\* a handler that flips the flag at every delivery
signal_handler_flips ==
  /\ ~Terminated
  /\ stop' = 1 - stop
  /\ UNCHANGED <<pc, setupVars, loopVars, decVars, encVars, fails>>
  /\ UNCHANGED derefs

\* void signal_handler(int signal): stop = 1
signal_handler ==
  /\ ~Terminated
  /\ stop' = 1
  /\ UNCHANGED <<pc, setupVars, loopVars, decVars, encVars, fails>>
  /\ UNCHANGED derefs

(* ------------------------------- setup -------------------------------- *)
\* the handle of main that a successful setup call fills
Acquired(stage) ==
  CASE stage = "alloc_packet"  -> {"packet"}
    [] stage = "open_input"    -> {"input_avfc"}
    [] stage = "open_decoder"  -> {"input_avcc"}
    [] stage = "open_output"   -> {"output_avfc"}
    [] stage = "alloc_encoder" -> {"output_avcc"}
    [] OTHER                   -> {}

\* the destructors of main's handles run: every deleter is called once
Unwind ==
  /\ held' = {}
  /\ released' = released \cup held

\* main has no handler for the runtime_error: std::terminate is called, and
\* whether the stack is unwound before it is up to the implementation
Terminate ==
  \E unwound \in BOOLEAN :
    IF unwound THEN Unwind ELSE UNCHANGED <<held, released>>

\* throw std::runtime_error(msg), never caught
Throw(stage, msg) ==
  /\ pc' = "aborted"
  /\ err' = msg
  /\ failedStage' = stage
  /\ Terminate

\* a setup call whose failure is tested and thrown
SetupStep(here, next, msg) ==
  /\ pc = here
  /\ setupLog' = Append(setupLog, here)
  /\ \E ok \in BOOLEAN :
       IF ok THEN /\ pc' = next
                  /\ held' = held \cup Acquired(here)
                  /\ UNCHANGED <<err, failedStage, released>>
             ELSE Throw(here, msg)

FindInputFormat ==
  /\ SetupStep("find_input_format", "alloc_packet", "Failed to find input format")
  /\ UNCHANGED <<input_avs, timebase_num, stream_idx, encFlags, sigVars, loopVars, decVars, encVars, fails>>
  /\ UNCHANGED derefs

AllocPacket ==
  /\ SetupStep("alloc_packet", "open_input", "Failed to allocate a decoder packet")
  /\ UNCHANGED <<input_avs, timebase_num, stream_idx, encFlags, sigVars, loopVars, decVars, encVars, fails>>
  /\ UNCHANGED derefs

OpenInput ==
  /\ SetupStep("open_input", "find_best_stream", "Failed to open the input format")
  /\ UNCHANGED <<input_avs, timebase_num, stream_idx, encFlags, sigVars, loopVars, decVars, encVars, fails>>
  /\ UNCHANGED derefs

\* input_avs = input_avfc.find_best_stream(..): NULL on failure, not tested
FindBestStream ==
  /\ pc = "find_best_stream"
  /\ setupLog' = Append(setupLog, "find_best_stream")
  /\ \E ok \in BOOLEAN :
       /\ input_avs' = IF ok THEN "stream" ELSE "null"
       /\ failedStage' = IF ok THEN failedStage ELSE "find_best_stream"
  /\ pc' = "open_decoder"
  /\ UNCHANGED <<err, timebase_num, stream_idx, encFlags, held, released, sigVars, loopVars, decVars, encVars, fails>>
  /\ UNCHANGED derefs

\* DecoderContext::open_context(input_avs->codecpar): reads through input_avs.
\* Through a null input_avs the read is undefined: the process crashes, or
\* open_context runs on what the read gave, which describes no codec.
OpenDecoder ==
  /\ pc = "open_decoder"
  /\ derefs' = IF input_avs = "null" THEN derefs \cup {"input_avs->codecpar"} ELSE derefs
  /\ \/ /\ input_avs = "null"
        /\ \E o \in UBOutcomes :
             \/ /\ o = "crash"
                /\ pc' = "crashed"
                /\ UNCHANGED <<err, setupLog, failedStage, held, released>>
             \/ /\ o = "continue"
                /\ setupLog' = Append(setupLog, "open_decoder")
                /\ pc' = "aborted"
                /\ err' = "Failed to allocate the input codec context"
                /\ Terminate
                /\ UNCHANGED failedStage
     \/ /\ input_avs = "stream"
        /\ setupLog' = Append(setupLog, "open_decoder")
        /\ \E ok \in BOOLEAN :
             IF ok THEN /\ pc' = "guess_frame_rate"
                        /\ held' = held \cup Acquired("open_decoder")
                        /\ UNCHANGED <<err, failedStage, released>>
                   ELSE Throw("open_decoder", "Failed to allocate the input codec context")
  /\ UNCHANGED <<input_avs, timebase_num, stream_idx, encFlags, sigVars, loopVars, decVars, encVars, fails>>

\* timebase = av_inv_q(av_guess_frame_rate(..)), later output_avcc->time_base
GuessFrameRate ==
  /\ pc = "guess_frame_rate"
  /\ \E n \in TimeBaseNums : timebase_num' = n
  /\ pc' = "open_output"
  /\ UNCHANGED <<err, setupLog, failedStage, input_avs, stream_idx, encFlags, held, released, sigVars, loopVars, decVars, encVars, fails>>
  /\ UNCHANGED derefs

OpenOutput ==
  /\ SetupStep("open_output", "alloc_encoder", "Failed to open the output format")
  /\ UNCHANGED <<input_avs, timebase_num, stream_idx, encFlags, sigVars, loopVars, decVars, encVars, fails>>
  /\ UNCHANGED derefs

AllocEncoder ==
  /\ SetupStep("alloc_encoder", "open_encoder", "Failed to allocate the output codec context")
  /\ UNCHANGED <<input_avs, timebase_num, stream_idx, encFlags, sigVars, loopVars, decVars, encVars, fails>>
  /\ UNCHANGED derefs

\* the encoder fields are set, then output_avcc.open()
OpenEncoder ==
  /\ SetupStep("open_encoder", "create_stream", "Failed to open the output codec context")
  /\ UNCHANGED <<input_avs, timebase_num, stream_idx, encFlags, sigVars, loopVars, decVars, encVars, fails>>
  /\ UNCHANGED derefs

\* stream_idx = output_avfc.create_stream(output_avcc)
CreateStream ==
  /\ pc = "create_stream"
  /\ setupLog' = Append(setupLog, "create_stream")
  /\ \E r \in {"ok", "no_stream", "no_params"} :
       \/ /\ r = "ok"
          /\ \E i \in StreamIdxs : stream_idx' = i
          /\ encFlags' = TRUE
          /\ pc' = "write_header"
          /\ UNCHANGED <<err, failedStage, held, released>>
       \/ /\ r = "no_stream"
          /\ stream_idx' = -1
          /\ UNCHANGED encFlags
          /\ Throw("create_stream", "Failed to create new output stream")
       \/ /\ r = "no_params"
          /\ stream_idx' = AVERROR_EINVAL
          /\ UNCHANGED encFlags
          /\ Throw("create_stream", "Failed to create new output stream")
  /\ UNCHANGED <<input_avs, timebase_num, sigVars, loopVars, decVars, encVars, fails>>
  /\ UNCHANGED derefs

\* a main that goes into the loop whatever avformat_write_header answered
WriteHeaderUnchecked ==
  /\ pc = "write_header"
  /\ setupLog' = Append(setupLog, "write_header")
  /\ \E ok \in BOOLEAN : failedStage' = IF ok THEN failedStage ELSE "write_header"
  /\ pc' = "loop_test"
  /\ UNCHANGED <<err, held, released>>
  /\ UNCHANGED <<input_avs, timebase_num, stream_idx, encFlags, sigVars, loopVars, decVars, encVars, fails>>
  /\ UNCHANGED derefs

\* avformat_write_header(output_avfc.get(), NULL) < 0 -> throw
WriteHeader ==
  /\ SetupStep("write_header", "loop_test", "Failed to write output headers")
  /\ UNCHANGED <<input_avs, timebase_num, stream_idx, encFlags, sigVars, loopVars, decVars, encVars, fails>>
  /\ UNCHANGED derefs

Setup ==
  \/ FindInputFormat
  \/ AllocPacket
  \/ OpenInput
  \/ FindBestStream
  \/ OpenDecoder
  \/ GuessFrameRate
  \/ OpenOutput
  \/ AllocEncoder
  \/ OpenEncoder
  \/ CreateStream
  \/ WriteHeader

(* ----------------------------- read loop ------------------------------ *)
\* libav may still let an inner step fail
CanFail == Cardinality(fails) < MaxFailures

\* a loop that never looks at the flag
LoopCondIgnoresStop(s) == TRUE

\* while(!stop)
LoopCond(s) == s = 0

\* a loop exit that returns without the trailer
LoopTestSkipsTrailer ==
  /\ pc = "loop_test"
  /\ ntests' = ntests + 1
  /\ pc' = IF LoopCond(stop) THEN "read" ELSE "done"
  /\ exitBy' = IF LoopCond(stop) THEN exitBy ELSE "stop"
  /\ UNCHANGED <<nread, readsAfterStop, trailers, setupVars, sigVars, decVars, encVars, fails>>
  /\ UNCHANGED derefs

\* the loop condition of main
LoopTest ==
  /\ pc = "loop_test"
  /\ ntests' = ntests + 1
  /\ pc' = IF LoopCond(stop) THEN "read" ELSE "write_trailer"
  /\ exitBy' = IF LoopCond(stop) THEN exitBy ELSE "stop"
  /\ UNCHANGED <<nread, readsAfterStop, trailers, setupVars, sigVars, decVars, encVars, fails>>
  /\ UNCHANGED derefs

\* av_read_frame(input_avfc.get(), packet.get()) < 0 -> break
ReadFrame ==
  /\ pc = "read"
  /\ \/ /\ nread < MaxPackets
        /\ nread' = nread + 1
        /\ readsAfterStop' = IF stop = 1 THEN readsAfterStop + 1 ELSE readsAfterStop
        /\ pc' = "send_packet"
        /\ UNCHANGED exitBy
     \/ /\ pc' = "write_trailer"
        /\ exitBy' = "read"
        /\ UNCHANGED <<nread, readsAfterStop>>
  /\ UNCHANGED <<ntests, trailers, setupVars, sigVars, decVars, encVars, fails>>
  /\ UNCHANGED derefs

(* -------------------- DecoderContext::send_packet --------------------- *)
\* while(res >= 0)
DrainContinues(res) == res >= 0

\* a drain loop that takes every negative result for an error
NoControlSignal(res) == FALSE

\* res == AVERROR(EAGAIN) || res == AVERROR_EOF
IsControlSignal(res) == res = AVERROR_EAGAIN \/ res = AVERROR_EOF

\* the n frames the decoder makes of packet k, numbered from first
NewFrames(k, first, n) ==
  [i \in 1..n |-> [src |-> k, id |-> first + i, scaled |-> FALSE,
                   width |-> FrameWidth, height |-> FrameHeight, format |-> SrcPixFmt]]

\* a send_packet that gives the packet to the decoder twice
SubmitTwice(seq, k) == seq \o <<k, k>>

\* avcodec_send_packet(get(), packet.get()) is called once for the packet
Submit(seq, k) == Append(seq, k)

\* int res = avcodec_send_packet(get(), packet.get())
SendPacket ==
  /\ pc = "send_packet"
  /\ submitted' = Submit(submitted, nread)
  /\ \E r \in {0, AVERROR_EINVAL} :
       /\ r < 0 => CanFail
       /\ dres' = r
       /\ IF r = 0
            THEN \E n \in 0..MaxFramesPerPacket :
                   /\ decQ' = decQ \o NewFrames(nread, nextFid, n)
                   /\ nextFid' = nextFid + n
                   /\ oneToOne' = (oneToOne /\ n = 1)
                   /\ UNCHANGED fails
            ELSE /\ fails' = fails \cup {<<nread, "dec_submit">>}
                 /\ UNCHANGED <<decQ, nextFid, oneToOne>>
       /\ IF DrainContinues(r)
            THEN pc' = "dec_receive" /\ UNCHANGED sp_ret
            ELSE pc' = "send_packet_ret" /\ sp_ret' = 0
  /\ UNCHANGED <<frame, decEmitted, decDelivered, setupVars, sigVars, loopVars, encVars>>
  /\ UNCHANGED derefs

\* a drain loop that receives a frame and goes on without calling fn
DecReceiveSkipsCallback ==
  /\ pc = "dec_receive"
  /\ \E r \in {0, AVERROR_EAGAIN, AVERROR_EINVAL} :
       /\ r = 0 => decQ # <<>>
       /\ r = AVERROR_EAGAIN => decQ = <<>>
       /\ r = AVERROR_EINVAL => CanFail
       /\ dres' = r
       /\ IF IsControlSignal(r)
            THEN /\ pc' = "send_packet_ret"
                 /\ sp_ret' = 0
                 /\ UNCHANGED <<decQ, decEmitted, fails>>
            ELSE IF r < 0
              THEN /\ pc' = "send_packet_ret"
                   /\ sp_ret' = r
                   /\ fails' = fails \cup {<<nread, "dec_drain">>}
                   /\ UNCHANGED <<decQ, decEmitted>>
              ELSE /\ pc' = "dec_receive"
                   /\ decQ' = Tail(decQ)
                   /\ decEmitted' = Append(decEmitted, Head(decQ))
                   /\ UNCHANGED <<sp_ret, fails>>
  /\ UNCHANGED <<frame, nextFid, decDelivered, oneToOne, setupVars, sigVars, loopVars, encVars>>
  /\ UNCHANGED derefs
  /\ UNCHANGED submitted

\* one turn of the drain loop: Frame::alloc, avcodec_receive_frame, the tests
DecReceive ==
  /\ pc = "dec_receive"
  /\ \E r \in {0, AVERROR_EAGAIN, AVERROR_EINVAL} :
       /\ r = 0 => decQ # <<>>
       /\ r = AVERROR_EAGAIN => decQ = <<>>
       /\ r = AVERROR_EINVAL => CanFail
       /\ dres' = r
       /\ IF IsControlSignal(r)
            THEN /\ pc' = "send_packet_ret"
                 /\ sp_ret' = 0
                 /\ UNCHANGED <<decQ, frame, decEmitted, fails>>
            ELSE IF r < 0
              THEN /\ pc' = "send_packet_ret"
                   /\ sp_ret' = r
                   /\ fails' = fails \cup {<<nread, "dec_drain">>}
                   /\ UNCHANGED <<decQ, frame, decEmitted>>
              ELSE /\ pc' = "decode_callback"
                   /\ frame' = Head(decQ)
                   /\ decQ' = Tail(decQ)
                   /\ decEmitted' = Append(decEmitted, Head(decQ))
                   /\ UNCHANGED <<sp_ret, fails>>
  /\ UNCHANGED <<nextFid, decDelivered, oneToOne, setupVars, sigVars, loopVars, encVars>>
  /\ UNCHANGED derefs
  /\ UNCHANGED submitted

(* --------------------------- decode_callback --------------------------- *)
\* the frame Frame::alloc(w, h, pix_fmt) makes and sws_scale fills from f
ScaledFrame(f, w, h, pix_fmt) ==
  [src |-> f.src, id |-> f.id, scaled |-> TRUE,
   width |-> w, height |-> h, format |-> pix_fmt,
   pts |-> NoPts, pkt_dts |-> NoPts, pict_type |-> "decoder"]

\* a scale that returns its frame whatever sws_scale reported
RowsAccepted(rows, h) == TRUE

\* sws_scale(..) != sframe->height is the failure
RowsMatch(rows, h) == rows = h

\* what scale(w, h, pix_fmt) returns once sws_scale has reported rows
ScaleResult(f, w, h, pix_fmt, rows) ==
  IF RowsMatch(rows, h) THEN ScaledFrame(f, w, h, pix_fmt) ELSE Null

\* sws_freeContext(sws_ctx) stands only after the row test, before return frame
ContextAfterScale(rows, h) == IF RowsMatch(rows, h) THEN "freed" ELSE "live"

\* res = fn(std::move(frame));
\* auto scale_frame = frame.scale(frame->width, frame->height, AV_PIX_FMT_YUV420P)
Scale ==
  /\ pc = "decode_callback"
  /\ decDelivered' = Append(decDelivered, frame)
  /\ \E sc \in ScaleOutcomes :
       /\ sc # "ok" => CanFail
       /\ \/ /\ sc \in {"ok", "rows_mismatch"}
             /\ \E rows \in 0..frame.height :
                  /\ sc = "ok" <=> rows = frame.height
                  /\ sws_rows' = rows
                  /\ sws_ctx' = ContextAfterScale(rows, frame.height)
                  /\ scale_frame' = ScaleResult(frame, frame.width, frame.height, "YUV420P", rows)
             /\ fails' = IF scale_frame' = Null THEN fails \cup {<<nread, "scale">>} ELSE fails
             /\ pc' = "stamp"
             /\ UNCHANGED derefs
          \/ /\ sc \in {"ctx_fail", "init_fail"}
             /\ scale_frame' = Null
             /\ sws_rows' = NoRows
             /\ sws_ctx' = IF sc = "ctx_fail" THEN "none" ELSE "live"
             /\ pc' = "stamp"
             /\ fails' = fails \cup {<<nread, "scale">>}
             /\ UNCHANGED derefs
          \/ /\ sc = "alloc_fail"
             /\ scale_frame' = Null
             /\ sws_rows' = NoRows
             /\ fails' = fails \cup {<<nread, "scale">>}
             /\ \E o \in UBOutcomes :
                  IF o = "crash"
                    THEN /\ pc' = "crashed"
                         /\ derefs' = derefs \cup {"frame->width"}
                         /\ sws_ctx' = "none"
                    ELSE \E o2 \in UBOutcomes :
                           /\ pc' = IF o2 = "crash" THEN "crashed" ELSE "stamp"
                           /\ derefs' = derefs \cup {"frame->width", "sframe->width"}
                           /\ sws_ctx' \in (IF o2 = "crash" THEN {"none"} ELSE {"none", "live"})
          \/ /\ sc = "buffer_fail"
             /\ scale_frame' = Null
             /\ sws_rows' = NoRows
             /\ fails' = fails \cup {<<nread, "scale">>}
             /\ derefs' = derefs \cup {"sframe->width"}
             /\ \E o \in UBOutcomes :
                  /\ pc' = IF o = "crash" THEN "crashed" ELSE "stamp"
                  /\ sws_ctx' \in (IF o = "crash" THEN {"none"} ELSE {"none", "live"})
  /\ UNCHANGED <<decQ, nextFid, dres, sp_ret, frame, decEmitted, oneToOne,
                 frames, encQ, encDelay, encFlushed, eres, sf_ret, opkt, sent, written,
                 setupVars, sigVars, loopVars>>
  /\ UNCHANGED submitted

\* a callback that leaves the pts the frame came with
UnstampedPts(n, num) == NoPts

\* frames++ * output_avcc->time_base.num
StampPts(n, num) == n * num

\* scale_frame->pts = frames++ * ..; scale_frame->pkt_dts = scale_frame->pts
Stamp ==
  /\ pc = "stamp"
  /\ frames' = frames + 1
  /\ IF scale_frame = Null
       THEN /\ \E o \in UBOutcomes : pc' = IF o = "crash" THEN "crashed" ELSE "enc_send"
            /\ derefs' = derefs \cup {"scale_frame->pts"}
            /\ UNCHANGED scale_frame
       ELSE /\ scale_frame' = [scale_frame EXCEPT !.pts = StampPts(frames, timebase_num),
                                                  !.pkt_dts = StampPts(frames, timebase_num)]
            /\ pc' = "enc_send"
            /\ UNCHANGED derefs
  /\ sws_rows' = NoRows
  /\ sws_ctx' = "none"
  /\ UNCHANGED <<encQ, encDelay, encFlushed, eres, sf_ret, opkt, sent, written,
                 setupVars, sigVars, loopVars, decVars, fails>>

(* --------------------- EncoderContext::send_frame ---------------------- *)
\* frame->pict_type = AV_PICTURE_TYPE_NONE; res = avcodec_send_frame(..)
EncSend ==
  /\ pc = "enc_send"
  /\ \/ /\ scale_frame = Null
        /\ eres' = IF encFlushed THEN AVERROR_EOF ELSE 0
        /\ encFlushed' = TRUE
        /\ UNCHANGED <<scale_frame, encQ, sent, fails>>
     \/ /\ scale_frame # Null
        /\ scale_frame' = [scale_frame EXCEPT !.pict_type = "NONE"]
        /\ \E r \in {0, AVERROR_EINVAL, AVERROR_EOF} :
             /\ r = AVERROR_EOF <=> encFlushed
             /\ r = AVERROR_EINVAL => CanFail
             /\ eres' = r
             /\ IF r = 0
                  THEN /\ encQ' = Append(encQ, scale_frame')
                       /\ sent' = Append(sent, scale_frame')
                       /\ UNCHANGED fails
                  ELSE /\ fails' = fails \cup {<<nread, "enc_submit">>}
                       /\ UNCHANGED <<encQ, sent>>
        /\ UNCHANGED encFlushed
  /\ IF DrainContinues(eres')
       THEN pc' = "enc_receive" /\ UNCHANGED sf_ret
       ELSE pc' = "send_frame_ret" /\ sf_ret' = 0
  /\ UNCHANGED <<frames, sws_rows, sws_ctx, encDelay, opkt, written, setupVars, sigVars, loopVars, decVars>>
  /\ UNCHANGED derefs

\* the encoder has a packet to give
EncReady == IF encFlushed THEN encQ # <<>> ELSE Len(encQ) > encDelay

\* the packet the encoder makes of frame f
EncodedPacket(f) == [src |-> f.src, id |-> f.id, pts |-> f.pts, stream_index |-> 0]

\* one turn of the drain loop: Packet::alloc, avcodec_receive_packet, the tests
EncReceive ==
  /\ pc = "enc_receive"
  /\ \E r \in {0, AVERROR_EAGAIN, AVERROR_EOF, AVERROR_EINVAL} :
       /\ r = 0 => EncReady
       /\ r = AVERROR_EAGAIN => (~EncReady /\ ~encFlushed)
       /\ r = AVERROR_EOF => (~EncReady /\ encFlushed)
       /\ r = AVERROR_EINVAL => CanFail
       /\ eres' = r
       /\ IF IsControlSignal(r)
            THEN /\ pc' = "send_frame_ret"
                 /\ sf_ret' = 0
                 /\ UNCHANGED <<encQ, opkt, fails>>
            ELSE IF r < 0
              THEN /\ pc' = "send_frame_ret"
                   /\ sf_ret' = -1
                   /\ fails' = fails \cup {<<nread, "enc_drain">>}
                   /\ UNCHANGED <<encQ, opkt>>
              ELSE /\ pc' = "encode_callback"
                   /\ opkt' = EncodedPacket(Head(encQ))
                   /\ encQ' = Tail(encQ)
                   /\ UNCHANGED <<sf_ret, fails>>
  /\ UNCHANGED <<frames, scale_frame, sws_rows, sws_ctx, encDelay, encFlushed, sent, written,
                 setupVars, sigVars, loopVars, decVars>>
  /\ UNCHANGED derefs

\* a callback that stamps the index of a stream the output does not have
MisstampedPacket(p, idx) == [p EXCEPT !.stream_index = idx + 1]

\* packet->stream_index = stream_idx
StampedPacket(p, idx) == [p EXCEPT !.stream_index = idx]

\* res = fn(std::move(packet)): packet->stream_index = stream_idx; av_write_frame
EncodeCallback ==
  /\ pc = "encode_callback"
  /\ \E r \in {0, AVERROR_EINVAL} :
       /\ r < 0 => CanFail
       /\ eres' = r
       /\ opkt' = Null
       /\ IF r < 0
            THEN /\ pc' = "send_frame_ret"
                 /\ sf_ret' = r
                 /\ fails' = fails \cup {<<nread, "mux">>}
                 /\ UNCHANGED written
            ELSE /\ pc' = "enc_receive"
                 /\ written' = Append(written, StampedPacket(opkt, stream_idx))
                 /\ UNCHANGED <<sf_ret, fails>>
  /\ UNCHANGED <<frames, scale_frame, sws_rows, sws_ctx, encQ, encDelay, encFlushed, sent,
                 setupVars, sigVars, loopVars, decVars>>
  /\ UNCHANGED derefs

\* decode_callback returns what send_frame returned; send_packet tests it
DecodeCallbackReturn ==
  /\ pc = "send_frame_ret"
  /\ dres' = sf_ret
  /\ frame' = Null
  /\ scale_frame' = Null
  /\ eres' = 0
  /\ sf_ret' = 0
  /\ IF sf_ret < 0
       THEN pc' = "send_packet_ret" /\ sp_ret' = sf_ret
       ELSE pc' = "dec_receive" /\ UNCHANGED sp_ret
  /\ UNCHANGED <<decQ, nextFid, decEmitted, decDelivered, oneToOne,
                 frames, sws_rows, sws_ctx, encQ, encDelay, encFlushed, opkt, sent, written,
                 setupVars, sigVars, loopVars, fails>>
  /\ derefs' = {}
  /\ UNCHANGED submitted

\* a driver that leaves the loop when send_packet reports a failure
SendPacketReturnBreaks ==
  /\ pc = "send_packet_ret"
  /\ pc' = IF sp_ret < 0 THEN "write_trailer" ELSE "loop_test"
  /\ dres' = 0
  /\ sp_ret' = 0
  /\ UNCHANGED <<decQ, nextFid, frame, decEmitted, decDelivered, oneToOne,
                 setupVars, sigVars, loopVars, encVars, fails>>
  /\ UNCHANGED derefs
  /\ UNCHANGED submitted

\* input_avcc.send_packet(packet, decode_callback); its value is dropped
SendPacketReturn ==
  /\ pc = "send_packet_ret"
  /\ pc' = "loop_test"
  /\ dres' = 0
  /\ sp_ret' = 0
  /\ UNCHANGED <<decQ, nextFid, frame, decEmitted, decDelivered, oneToOne,
                 setupVars, sigVars, loopVars, encVars, fails>>
  /\ UNCHANGED derefs
  /\ UNCHANGED submitted

\* av_write_trailer(output_avfc.get()), whose result is dropped; return 0,
\* which runs the destructors
WriteTrailer ==
  /\ pc = "write_trailer"
  /\ trailers' = trailers + 1
  /\ pc' = "done"
  /\ Unwind
  /\ UNCHANGED <<err, setupLog, failedStage, input_avs, timebase_num, stream_idx, encFlags>>
  /\ UNCHANGED <<nread, ntests, readsAfterStop, exitBy, sigVars, decVars, encVars, fails>>
  /\ UNCHANGED derefs

Loop ==
  \/ LoopTest
  \/ ReadFrame
  \/ SendPacket
  \/ DecReceive
  \/ Scale
  \/ Stamp
  \/ EncSend
  \/ EncReceive
  \/ EncodeCallback
  \/ DecodeCallbackReturn
  \/ SendPacketReturn
  \/ WriteTrailer

Next == signal_handler \/ Setup \/ Loop

Spec == Init /\ [][Next]_vars

\* main is a sequential program whose calls all return: it always takes its
\* next step; the signal may or may not come
FairSpec == Spec /\ WF_vars(Setup \/ Loop)

(* ------------------------- derived predicates -------------------------- *)
\* avformat_write_header has succeeded
HeaderWritten ==
  /\ setupLog # <<>>
  /\ setupLog[Len(setupLog)] = "write_header"
  /\ err = ""

\* main is between two packets: at the loop condition, the read, or past the loop
BetweenPackets == pc \in {"loop_test", "read", "write_trailer", "done"}

\* main is inside input_avcc.send_packet for the packet it read last
InChain ==
  pc \in {"send_packet", "dec_receive", "decode_callback", "stamp", "enc_send",
          "enc_receive", "encode_callback", "send_frame_ret", "send_packet_ret"}

\* every setup call of main has succeeded so far
SetupSound == failedStage = "none"

\* main is in its read loop (RUNNING): at the condition, the read or a chain
Running == pc = "loop_test" \/ pc = "read" \/ InChain

\* main has left the loop for good: it is at av_write_trailer or has returned
Stopped == pc \in {"write_trailer", "done"}

(* ------------------------------- claims -------------------------------- *)
\* C1 (as stated): a failure of an inner step (decoder submit or drain,
\* Frame::scale, encoder submit or drain, mux write) never terminates or
\* crashes the run.
C1_InnerFailureNeverEndsRun ==
  (SetupSound /\ fails # {}) => pc \notin {"crashed", "aborted"}

\* C2 (as stated): once the header is written, however the run ends,
\* write_trailer has been called exactly once.
C2_TrailerOnceOnEveryEnd ==
  (SetupSound /\ HeaderWritten /\ Terminated) => trailers = 1

\* C3: the stop flag is tested exactly once per iteration, before the read
\* (one test more than reads while a read is pending, as many tests as reads
\* while the packet's chain runs), and after the handler has set the flag at
\* most one further packet is read.
C3_OneTestPerIterationOneMoreRead ==
  /\ readsAfterStop <= 1
  /\ pc = "read" => ntests = nread + 1
  /\ (InChain \/ pc = "loop_test") => ntests = nread
  /\ pc \in {"write_trailer", "done"} => ntests \in {nread, nread + 1}

\* C3 witness: the handler ran between the test and the read, the packet read
\* after it went through its chain and main is back at the loop condition.
C3_Witness ==
  /\ pc = "loop_test"
  /\ stop = 1
  /\ readsAfterStop = 1
  /\ written # <<>>

C5_PtsByHandOffIndex ==
  SetupSound =>
    \A i \in 1..Len(sent) :
      /\ sent[i].pts = (i - 1) * timebase_num
      /\ i < Len(sent) => sent[i].pts < sent[i + 1].pts

\* C6 (as stated): between two packets the frame counter equals the number
\* of frames handed successfully to the encoder (one increment per such
\* frame, none for a frame the encoder rejects).
C6_CounterCountsHandedFrames ==
  (SetupSound /\ BetweenPackets) => frames = Len(sent)

\* C7: every frame avcodec_receive_frame returns is passed to the
\* continuation exactly once and in the order it was returned, which follows
\* the order of the packets; when the next drain call is made the
\* continuation of the frame before has returned.
C7_EachFrameOnceInOrder ==
  /\ Len(decDelivered) <= Len(decEmitted)
  /\ \A i \in 1..Len(decDelivered) : decDelivered[i] = decEmitted[i]
  /\ pc # "decode_callback" => decDelivered = decEmitted
  /\ pc = "decode_callback" =>
        (Len(decEmitted) = Len(decDelivered) + 1 /\ frame = decEmitted[Len(decEmitted)])
  /\ \A i \in 1..(Len(decEmitted) - 1) :
        /\ decEmitted[i].id < decEmitted[i + 1].id
        /\ decEmitted[i].src <= decEmitted[i + 1].src
  /\ pc = "dec_receive" => (frame = Null /\ scale_frame = Null /\ opkt = Null)

\* C7 witness: two frames went to the continuation while the second packet
\* is processed, the first of them the frame of the first packet that a
\* failed drain had left in the decoder, and the drain loop is about to call
\* the decoder again.
C7_Witness ==
  /\ pc = "dec_receive"
  /\ Len(decDelivered) >= 2
  /\ decDelivered[1].src < nread
  /\ decDelivered[2].src = nread
  /\ <<1, "dec_drain">> \in fails
  /\ Len(sent) >= 2

\* C8 (as stated): N packets of one frame each and no stage failing give,
\* when the run has ended, exactly N written packets with the stream's index
\* and pts i * time_base.num, whatever the encoder holds back.
C8_AllPacketsWritten ==
  (SetupSound /\ pc = "done" /\ fails = {} /\ oneToOne) =>
    /\ Len(written) = nread
    /\ \A i \in 1..Len(written) :
          /\ written[i].stream_index = stream_idx
          /\ written[i].pts = (i - 1) * timebase_num

\* packet k failed in the decoder (submit or drain)
DecodeFailed(k) == \E f \in fails : f[1] = k /\ f[2] \in {"dec_submit", "dec_drain"}

\* no inner step other than a decoder step has failed so far
OnlyDecodeFailures == \A f \in fails : f[2] \in {"dec_submit", "dec_drain"}

C10_SetupFailureAborts ==
  failedStage # "none" =>
    /\ pc = "aborted"
    /\ err # ""
    /\ setupLog[Len(setupLog)] = failedStage
    /\ nread = 0
    /\ written = <<>>

\* C11 (as stated): when the run has ended, by return from main or by a
\* setup call that failed, every handle of main that was filled has had its
\* deleter run, once, and none is still held; and between two packets the
\* frame, the scaled frame and the packet of the drain loops are released.
C11_AllReleasedOnceAtEnd ==
  /\ pc \in {"done", "aborted"} => held = {}
  /\ held \cap released = {}
  /\ BetweenPackets => (frame = Null /\ scale_frame = Null /\ opkt = Null)

\* C12 (as stated): a call of Frame::scale that failed has returned a null
\* Frame, and no step of the wrappers or of decode_callback has read or
\* written through a null handle.
C12_NullHandleNeverDereferenced ==
  SetupSound =>
    /\ (pc = "stamp" /\ <<nread, "scale">> \in fails) => scale_frame = Null
    /\ derefs = {}

\* C13: when avcodec_receive_frame or avcodec_receive_packet answers
\* AVERROR(EAGAIN) or AVERROR_EOF, the drain loop is left, the continuation
\* is not called for that answer (nothing more is delivered or written) and
\* send_packet / send_frame return 0; neither of them ever returns one of
\* the two codes.
C13_ControlSignalsReturnZero ==
  [][ /\ (pc = "dec_receive" /\ pc' # pc /\ dres' \in {AVERROR_EAGAIN, AVERROR_EOF}) =>
           /\ pc' = "send_packet_ret"
           /\ sp_ret' = 0
           /\ decDelivered' = decDelivered
           /\ frame' = frame
      /\ (pc = "enc_receive" /\ pc' # pc /\ eres' \in {AVERROR_EAGAIN, AVERROR_EOF}) =>
           /\ pc' = "send_frame_ret"
           /\ sf_ret' = 0
           /\ written' = written
           /\ opkt' = opkt
      /\ sp_ret' \notin {AVERROR_EAGAIN, AVERROR_EOF}
      /\ sf_ret' \notin {AVERROR_EAGAIN, AVERROR_EOF} ]_vars

\* C13 witness: the encoder drain answered EAGAIN for a frame it holds back,
\* then the decoder drain answered EAGAIN, and send_packet is returning 0.
C13_Witness ==
  /\ pc = "send_packet_ret"
  /\ dres = AVERROR_EAGAIN
  /\ sp_ret = 0
  /\ sent # <<>>
  /\ written = <<>>

\* C14 (as stated): send_packet and send_frame return a negative value
\* exactly when their last libav call or their continuation answered a
\* negative result other than AVERROR(EAGAIN) / AVERROR_EOF (submit
\* rejected, drain failed, continuation failed), and zero otherwise.
C14_NegativeIffFailed ==
  /\ pc = "send_packet_ret" =>
        (sp_ret < 0 <=> (dres < 0 /\ dres \notin {AVERROR_EAGAIN, AVERROR_EOF}))
  /\ pc = "send_frame_ret" =>
        (sf_ret < 0 <=> (eres < 0 /\ eres \notin {AVERROR_EAGAIN, AVERROR_EOF}))

\* C15: the stop flag is 0 or 1, a step never takes it from 1 back to 0, and
\* a step that changes the flag changes nothing else of the state: a second
\* or later delivery of the signal finds the flag at 1 and leaves the state
\* as the first delivery left it, so the run goes on the same way.
C15_StopSetOnceNeverCleared ==
  [][ /\ stop \in {0, 1}
      /\ stop' \in {0, 1}
      /\ stop = 1 => stop' = 1
      /\ stop' # stop =>
           UNCHANGED <<pc, setupVars, loopVars, decVars, encVars, fails, derefs>> ]_vars

\* C15 witness: the flag was set while a packet is in its chain; the loop
\* condition has not seen it yet and the handler can be delivered again.
C15_Witness ==
  /\ stop = 1
  /\ pc = "dec_receive"
  /\ exitBy = "none"
  /\ ENABLED signal_handler

\* C16: when scale has returned (pc = "stamp"), a non-null result means
\* sws_scale reported exactly the target height, and a reported row count
\* other than the height gave a null frame; while decode_callback holds the
\* result it is a frame of its own (not the source) with the width, height
\* and format asked for.  The same for every target size and row count
\* scale can be given for this source.
C16_ScaledOnlyOnExactRows ==
  /\ (pc = "stamp" /\ scale_frame # Null) => sws_rows = scale_frame.height
  /\ scale_frame # Null =>
        /\ scale_frame.scaled /\ ~frame.scaled
        /\ scale_frame # frame
        /\ scale_frame.width = frame.width
        /\ scale_frame.height = frame.height
        /\ scale_frame.format = "YUV420P"
  /\ (pc = "stamp" /\ sws_rows # NoRows /\ sws_rows # frame.height) => scale_frame = Null
  /\ frame # Null =>
        \A w \in 1..FrameWidth, h \in 1..FrameHeight, rows \in 0..FrameHeight :
          LET r == ScaleResult(frame, w, h, "YUV420P", rows)
          IN  IF rows = h
                THEN r # Null /\ r # frame /\ r.width = w /\ r.height = h /\ r.format = "YUV420P"
                ELSE r = Null

\* C16 witness: scale has just returned the frame of the second packet,
\* after sws_scale reported all its rows.
C16_Witness ==
  /\ pc = "stamp"
  /\ scale_frame # Null
  /\ sws_rows = FrameHeight
  /\ scale_frame.src = 2
  /\ scale_frame.height = frame.height

\* some inner step failed while packet k was processed
PacketFailed(k) == \E f \in fails : f[1] = k

\* C17 (as stated): once a step has failed for packet k, no frame decoded
\* from packet k is passed to the decode continuation and no packet encoded
\* from its frames is written while a later packet is processed.
C17_FailedPacketWorkDiscarded ==
  [][ /\ decDelivered' # decDelivered =>
           LET f == decDelivered'[Len(decDelivered')]
           IN  f.src < nread => ~PacketFailed(f.src)
      /\ written' # written =>
           LET p == written'[Len(written')]
           IN  p.src < nread => ~PacketFailed(p.src) ]_vars

\* packets avcodec_receive_packet has returned so far: the encoder gives
\* them in the order it took the frames
Drained == Len(sent) - Len(encQ)

\* mux writes that failed so far
MuxFailures == Cardinality({f \in fails : f[2] = "mux"})

\* C18: every packet written carries the index create_stream returned;
\* packets are written in the order the encoder drain returned them; and
\* when the drain is called again the packet before it has gone through the
\* write (written, or the write failed), so at most one packet is between
\* drain and write.
C18_StampedAndWrittenInDrainOrder ==
  /\ \A i \in 1..Len(written) : written[i].stream_index = stream_idx
  /\ \A i \in 1..(Len(written) - 1) : written[i].id < written[i + 1].id
  /\ pc # "encode_callback" => (opkt = Null /\ Drained = Len(written) + MuxFailures)
  /\ pc = "encode_callback" =>
        /\ opkt # Null
        /\ opkt.id = sent[Drained].id
        /\ opkt.pts = sent[Drained].pts
        /\ Drained = Len(written) + MuxFailures + 1

\* C18 witness: two packets were written, in the order of their frames, and
\* the drain is being called again.
C18_Witness ==
  /\ pc = "enc_receive"
  /\ Len(written) = 2
  /\ written[1].id < written[2].id
  /\ written[2].stream_index = stream_idx
  /\ Drained = 2

\* C19: every frame avcodec_send_frame was given is a frame scale made (not
\* the decoder's), its pict_type is AV_PICTURE_TYPE_NONE and its pts and
\* pkt_dts are both the value decode_callback stamped, a multiple of
\* time_base.num not above what the counter has reached; the frame in the
\* hands of send_frame is the one stamped last.
C19_OnlyStampedScaledFramesSubmitted ==
  /\ \A i \in 1..Len(sent) :
        /\ sent[i].scaled
        /\ sent[i].pict_type = "NONE"
        /\ sent[i].pts = sent[i].pkt_dts
        /\ sent[i].pts # NoPts
        /\ sent[i].pts % timebase_num = 0
        /\ sent[i].pts <= (frames - 1) * timebase_num
  /\ (pc \in {"enc_receive", "encode_callback", "send_frame_ret"} /\ scale_frame # Null) =>
        /\ scale_frame.scaled
        /\ scale_frame # frame
        /\ scale_frame.pict_type = "NONE"
        /\ scale_frame.pts = (frames - 1) * timebase_num
        /\ scale_frame.pkt_dts = scale_frame.pts

\* C19 witness: the second frame has just been submitted and accepted.
C19_Witness ==
  /\ pc = "enc_receive"
  /\ Len(sent) = 2
  /\ scale_frame = sent[2]
  /\ sent[2].pts = timebase_num

\* the setup call was made
Logged(stage) == \E i \in 1..Len(setupLog) : setupLog[i] = stage

\* position of the setup call among the calls made
LogIndex(stage) == CHOOSE i \in 1..Len(setupLog) : setupLog[i] = stage

\* C20 (as stated): the output stream is created after the encoder was
\* allocated and set up, the header is written after the stream was created
\* and with the global-header flag in the encoder, and the flag is in the
\* encoder before the encoder is opened.
C20_FlagBeforeEncoderOpen ==
  /\ Logged("create_stream") =>
        (Logged("alloc_encoder") /\ LogIndex("alloc_encoder") < LogIndex("create_stream"))
  /\ Logged("write_header") =>
        /\ Logged("create_stream")
        /\ LogIndex("create_stream") < LogIndex("write_header")
        /\ encFlags
  /\ (SetupSound /\ Logged("open_encoder")) => encFlags

\* C21 (as stated): when scale has returned, the context it created for the
\* call has been freed, whichever way the call ended.
C21_ScaleContextFreedBeforeReturn ==
  (pc = "stamp" /\ derefs = {}) => sws_ctx # "live"

\* C22 (as stated): when every call returns, once the stop flag is set while
\* main is in its read loop, or the read has ended the loop, main eventually
\* writes the trailer and returns; and once main has left the loop it never
\* is in the loop again.
C22_StopLeadsToStopped ==
  /\ ((Running /\ stop = 1) ~> (pc = "done" /\ trailers = 1))
  /\ ((pc = "write_trailer") ~> (pc = "done" /\ trailers = 1))
  /\ [][Stopped => Stopped']_vars

\* calls of avformat_write_header made so far
HeaderCalls == Cardinality({i \in 1..Len(setupLog) : setupLog[i] = "write_header"})

\* avformat_write_header was called and did not fail
HeaderSucceeded == Logged("write_header") /\ failedStage # "write_header"

\* C23: the header is written at most once, and once when the loop is
\* reached; a packet is handed to av_write_frame, and the trailer is written,
\* only after the header write succeeded; a packet is handed to the write
\* only before the trailer; and once the trailer is written no packet is
\* written, no header, and no second trailer.
C23_HeaderThenPacketsThenTrailer ==
  /\ [](/\ HeaderCalls <= 1
        /\ (Running \/ Stopped) => HeaderCalls = 1
        /\ (written # <<>> \/ pc = "encode_callback" \/ trailers > 0) => HeaderSucceeded
        /\ pc = "encode_callback" => trailers = 0
        /\ trailers <= 1
        /\ trailers = 1 <=> pc = "done")
  /\ [][trailers > 0 =>
          (written' = written /\ trailers' = trailers /\ setupLog' = setupLog)]_vars

\* C23 witness: header written, two packets written, trailer written, main
\* has returned.
C23_Witness ==
  /\ pc = "done"
  /\ HeaderSucceeded
  /\ Len(written) = 2
  /\ trailers = 1

\* C24: the packets given to the decoder are the packets read, each once
\* and in read order (all of them but the one just read, while main is about
\* to call send_packet for it); a packet is read only at the read, when the
\* send_packet call of every packet before has returned and nothing of its
\* chain is left in the hands of main.
C24_EachPacketSubmittedOnceInOrder ==
  /\ [](/\ Len(submitted) = (IF pc = "send_packet" THEN nread - 1 ELSE nread)
        /\ \A i \in 1..Len(submitted) : submitted[i] = i
        /\ pc = "read" =>
              /\ frame = Null /\ scale_frame = Null /\ opkt = Null
              /\ dres = 0 /\ sp_ret = 0 /\ eres = 0 /\ sf_ret = 0)
  /\ [][nread' # nread =>
          (pc = "read" /\ nread' = nread + 1 /\ pc' = "send_packet"
            /\ Len(submitted) = nread)]_vars

\* C24 witness: the second packet has been read after the first went through
\* its whole chain, and has been given to the decoder.
C24_Witness ==
  /\ pc = "dec_receive"
  /\ submitted = <<1, 2>>
  /\ written # <<>>
  /\ written[1].src = 1

=============================================================================
